---- MODULE Spec2Model ----
(***************************************************************************)
(* State-machine model of the JNI HTTP layer of aws-crt-java:              *)
(*   - src/native/http_connection_manager.c : the connection pool manager  *)
(*     (jni_conn_manager), its transfer-buffer list and its shutdown.      *)
(*   - src/native/http_connection.c : one connection handle                *)
(*     (http_jni_connection) and the request streaming callbacks.          *)
(* The aws-c-http pooling primitive, the transport and the stream engine   *)
(* are collaborators outside the repository; they are modelled from the    *)
(* contract the specification gives for them (sections 4.1, 4.3 and 6).    *)
(***************************************************************************)
EXTENDS Integers, Sequences, FiniteSets, TLC

(* ------------------------------ bounds --------------------------------- *)
\* largest max_connections a caller configures
MaxConns == 2
\* number of acquire calls a run makes
MaxAcquires == 2
\* number of requests a run submits
MaxRequests == 1
\* header blocks and body chunks the engine delivers for one response
MaxHeaderBlocks == 1
MaxBodyChunks == 1
\* outgoing-body-fill callbacks the engine makes for one request
MaxBodyFills == 2
\* number of shutdown calls a run makes
MaxShutdownCalls == 2
\* number of close calls a run makes on an established connection
MaxCloseCalls == 2

(* ----------------------------- constants ------------------------------- *)
NULL == "NULL"
\* the pointer aws_http_connection_manager_new returns
POOL == "native_pool"
\* the handle httpConnectionManagerNew returns: the jni_conn_manager itself
MGR == "jni_conn_manager"
\* a pointer value read from released memory
GARBAGE == "garbage"
\* some non-zero aws error code
ERR == 1

JavaThreads == {"j1", "j2"}
IoThread == "io"
Threads == JavaThreads \cup {IoThread}
NoThread == "none"

AcqIds == 1..MaxAcquires
ReqIds == 1..MaxRequests

VARIABLES
    mgr,                \* struct jni_conn_manager (and whether it is allocated)
    rw_lock,            \* jni_conn_manager.rw_lock: "free", the holding thread, or "destroyed"
    bufPairs,           \* the jni_byte_buf_pair objects currently allocated
    num_nodes,          \* the drain loop's counter, -1 until the drain has run
    pool,               \* the pooling primitive (aws_http_connection_manager)
    pc,                 \* where each caller thread is inside a pool operation
    cb,                 \* the activation of the primitive's shutdown-complete callback
    acq,                \* per acquire call: progress, pointer read, events delivered
    held,               \* connections delivered to the caller and not given back by it
    poolShutdownEvents, \* onShutdownComplete() deliveries to the pool listener
    calls,              \* how many times each pool operation was called
    hc,                 \* struct http_jni_connection (and whether it is allocated)
    tr,                 \* the transport's connection behind the handle
    connEvents,         \* events delivered to the connection listener, in order
    req,                \* per request: its context, the engine's stream, the events delivered
    http_options,       \* the options httpConnectionNew handed to aws_http_client_connect
    closes,             \* close calls made while the handle held an established connection
    thrown,             \* the exception the latest JNI call left pending, or "none"
    crashed             \* the process aborted (fatal assertion or invalid access)

poolVars == <<mgr, rw_lock, bufPairs, num_nodes, pool, pc, cb, acq, held,
              poolShutdownEvents, calls>>
connVars == <<hc, tr, connEvents, req, closes, http_options>>
vars == <<poolVars, connVars, thrown, crashed>>

(* ------------------------- struct jni_conn_manager --------------------- *)
NoMgr == [st |-> "none", max_connections |-> 0, buf_size |-> 0,
          idle_java_native_buf_pairs |-> <<>>, native_conn_manager |-> NULL,
          java_conn_manager |-> FALSE, use_tls |-> FALSE]

NoPool == [st |-> "none", max_connections |-> 0, connecting |-> 0, idle |-> 0,
           vended |-> 0, pending |-> <<>>, use_tls |-> FALSE, port |-> 0]

NoAcq == [st |-> "unused", thread |-> NoThread, ptr |-> NULL, events |-> <<>>]

NoCb == [thread |-> NoThread, pc |-> "none"]

(* ----------------------- struct http_jni_connection -------------------- *)
\* aws_mem_acquire does not clear memory: a field holds "uninit" until written
NoConn == [st |-> "none", native_http_conn |-> "uninit", java_http_conn |-> FALSE,
           disconnect_requested |-> "uninit"]

\* struct aws_http_client_connection_options, before any connect was made
NoOptions == [port |-> 0, tls_options |-> NULL, tls_ctx |-> NULL]

\* struct http_request_jni_async_callback, the engine's stream, and the events
\* the request listener has received
NoReq == [ctx |-> FALSE, stream |-> "none", has_body |-> FALSE, log |-> <<>>,
          atClose |-> FALSE,
          jni_http_callback_handler |-> FALSE,  \* global reference on the listener
          headers |-> <<>>,       \* request_options.header_array
          jHeaders |-> <<>>,      \* the array the latest onHeaders call was given
          fills |-> 0,            \* sendOutgoingBody invocations
          callerDone |-> FALSE,   \* sendOutgoingBody has returned true
          out |-> "none"]         \* the state the engine was last returned

\* a slot of a Java object array that was never assigned
NullElement == <<>>

Init ==
    /\ mgr = NoMgr
    /\ rw_lock = "free"
    /\ bufPairs = {}
    /\ num_nodes = -1
    /\ pool = NoPool
    /\ pc = [t \in JavaThreads |-> "idle"]
    /\ cb = NoCb
    /\ acq = [a \in AcqIds |-> NoAcq]
    /\ held = 0
    /\ poolShutdownEvents = 0
    /\ calls = [acquire |-> 0, release |-> 0]
    /\ hc = NoConn
    /\ tr = "none"
    /\ connEvents = <<>>
    /\ req = [r \in ReqIds |-> NoReq]
    /\ closes = 0
    /\ http_options = NoOptions
    /\ thrown = "none"
    /\ crashed = FALSE

\* aws_jni_throw_runtime_exception: the call returns to Java with the exception pending
aws_jni_throw_runtime_exception(msg) == thrown' = msg

\* a JNI call that throws nothing returns with no exception pending
NoException == thrown' = "none"

(* ------------------------ transfer buffer pool ------------------------- *)
\* the pair is allocated but never linked into the list
Mut_push_without_link(list, id) == list

\* aws_push_new_native_java_buf_pair: allocate pair `id` and push it to the front
aws_push_new_native_java_buf_pair(list, id) == <<id>> \o list

\* the construction loop: one push for every i in 0 .. max_connections - 1
RECURSIVE PushLoop(_, _, _)
PushLoop(list, i, max_connections) ==
    IF i < max_connections
    THEN PushLoop(aws_push_new_native_java_buf_pair(list, i + 1), i + 1, max_connections)
    ELSE list

\* the pairs a list holds
RECURSIVE ListNodes(_)
ListNodes(list) ==
    IF list = <<>> THEN {} ELSE {Head(list)} \cup ListNodes(Tail(list))

\* the drain loop: pop the front until the list is empty, counting the nodes
RECURSIVE DrainLoop(_, _)
DrainLoop(list, count) ==
    IF list # <<>> THEN DrainLoop(Tail(list), count + 1) ELSE count

(* ----------------------- pooling primitive (aws-c-http) ---------------- *)
\* the pool is configured with one connection more than the manager records
Mut_manager_options_extra_conn(jni_max_conns, use_tls, port) ==
    [max_connections |-> jni_max_conns + 1, port |-> port,
     tls_connection_options |-> IF use_tls THEN "tls_conn_options" ELSE NULL]

\* the options httpConnectionManagerNew hands to aws_http_connection_manager_new
manager_options(jni_max_conns, use_tls, port) ==
    [max_connections |-> jni_max_conns, port |-> port,
     tls_connection_options |-> IF use_tls THEN "tls_conn_options" ELSE NULL]

aws_http_connection_manager_new(options) ==
    [st |-> "ready", max_connections |-> options.max_connections, connecting |-> 0,
     idle |-> 0, vended |-> 0, pending |-> <<>>,
     use_tls |-> options.tls_connection_options # NULL, port |-> options.port]

\* releasing the last reference starts the teardown; idle connections are closed
aws_http_connection_manager_release(p) ==
    [p EXCEPT !.st = "shutting_down", !.idle = 0]

\* teardown is over once no connection is open or being opened and no acquire waits
ShutdownReady(p) ==
    /\ p.st = "shutting_down"
    /\ p.connecting = 0 /\ p.idle = 0 /\ p.vended = 0 /\ p.pending = <<>>

(* ---------------------- httpConnectionManagerNew ----------------------- *)
\* TLS is chosen from the port number, as httpConnectionNew chooses it
Mut_pool_use_tls_from_port(jni_tls_ctx, port) == ~(port = 80 \/ port = 8080)

\* int use_tls = (jni_tls_ctx != 0)
pool_use_tls(jni_tls_ctx, port) == jni_tls_ctx # NULL

\* the count of connections is not checked
Mut_new_check_without_max_conns(bootstrap, socket_options, window_size, port, max_conns) ==
    IF bootstrap = NULL THEN "ClientBootstrap can't be null"
    ELSE IF socket_options = NULL THEN "SocketOptions can't be null"
    ELSE IF port <= 0 \/ 65535 < port THEN "Port must be between 1 and 65535"
    ELSE IF window_size <= 0 THEN "Window Size must be > 0"
    ELSE "none"

\* the argument checks, in the order the code makes them: the message of the
\* first one that fails, or "none"
httpConnectionManagerNew_check(bootstrap, socket_options, window_size, port, max_conns) ==
    IF bootstrap = NULL THEN "ClientBootstrap can't be null"
    ELSE IF socket_options = NULL THEN "SocketOptions can't be null"
    ELSE IF port <= 0 \/ 65535 < port THEN "Port must be between 1 and 65535"
    ELSE IF window_size <= 0 THEN "Window Size must be > 0"
    ELSE IF max_conns <= 0 THEN "Max Connections must be > 0"
    ELSE "none"

\* how the two allocations of a create call end: both succeed, aws_mem_acquire
\* has no memory for the manager state, or aws_http_connection_manager_new
\* returns no pool
CreateOutcomes == {"ok", "no_memory", "no_pool"}

httpConnectionManagerNew(bootstrap, socket_options, tls_ctx, buf_size, window_size, port, max_conns, outcome) ==
    /\ ~crashed
    /\ mgr.st = "none"
    /\ LET error == httpConnectionManagerNew_check(bootstrap, socket_options,
                                                   window_size, port, max_conns)
       IN
       IF error # "none"
       THEN aws_jni_throw_runtime_exception(error)
            /\ UNCHANGED <<poolVars, crashed>>
       ELSE IF outcome = "no_memory"
       THEN \* the result of aws_mem_acquire is used unchecked: aws_mutex_init
            \* writes through it
            /\ crashed' = TRUE
            /\ UNCHANGED <<poolVars, thrown>>
       ELSE LET use_tls == pool_use_tls(tls_ctx, port)
                list == PushLoop(<<>>, 0, max_conns)
                \* the result of aws_http_connection_manager_new is stored unchecked
                conn_manager == IF outcome = "ok" THEN POOL ELSE NULL
            IN  /\ mgr' = [st |-> "live", max_connections |-> max_conns,
                           buf_size |-> buf_size,
                           idle_java_native_buf_pairs |-> list,
                           native_conn_manager |-> conn_manager,
                           java_conn_manager |-> TRUE, use_tls |-> use_tls]
                /\ bufPairs' = 1..max_conns
                /\ pool' = IF outcome = "ok"
                           THEN aws_http_connection_manager_new(manager_options(max_conns, use_tls, port))
                           ELSE pool
                /\ NoException
                /\ UNCHANGED <<rw_lock, num_nodes, pc, cb, acq, held,
                               poolShutdownEvents, calls, crashed>>
    /\ UNCHANGED connVars

(* -------------------- httpConnectionManagerRelease --------------------- *)
\* the null check; a non-null handle goes on to aws_mutex_lock
httpConnectionManagerRelease(t, jni_conn_manager_ptr) ==
    /\ ~crashed
    /\ pc[t] = "idle"
    /\ calls.release < MaxShutdownCalls
    /\ IF jni_conn_manager_ptr = NULL
       THEN aws_jni_throw_runtime_exception("Connection Manager can't be null")
            /\ UNCHANGED <<pc, calls>>
       ELSE /\ pc' = [pc EXCEPT ![t] = "rel_lock"]
            /\ calls' = [calls EXCEPT !.release = @ + 1]
            /\ NoException
    /\ UNCHANGED <<mgr, rw_lock, bufPairs, num_nodes, pool, cb, acq, held,
                   poolShutdownEvents, crashed>>
    /\ UNCHANGED connVars

\* which thread the primitive runs its shutdown-complete callback on when the
\* teardown is already over inside aws_http_connection_manager_release: the
\* releasing thread itself, or later its own event-loop thread
InlineChoices(t, p) == IF ShutdownReady(p) THEN {t, NoThread} ELSE {NoThread}

\* the release call itself reclaims the buffer pairs instead of leaving them to
\* the shutdown-complete callback
Mut_release_frees_buffers(t) ==
    /\ ~crashed
    /\ pc[t] = "rel_lock"
    /\ mgr.st = "live" /\ mgr.native_conn_manager # NULL
    /\ rw_lock = "free"
    /\ rw_lock' = t
    /\ mgr' = [mgr EXCEPT !.native_conn_manager = NULL,
                          !.idle_java_native_buf_pairs = <<>>]
    /\ bufPairs' = {}
    /\ pool' = aws_http_connection_manager_release(pool)
    /\ pc' = [pc EXCEPT ![t] = "rel_unlock"]
    /\ UNCHANGED <<num_nodes, cb, acq, held, poolShutdownEvents, calls, thrown, crashed>>
    /\ UNCHANGED connVars

\* aws_mutex_lock succeeded: read the pool reference, null it, release it
httpConnectionManagerRelease_locked(t) ==
    /\ ~crashed
    /\ pc[t] = "rel_lock"
    /\ IF mgr.st = "freed"
       THEN \* the lock lives in released memory: the call faults or never returns
            /\ \/ crashed' = TRUE /\ UNCHANGED pc
               \/ pc' = [pc EXCEPT ![t] = "hung"] /\ UNCHANGED crashed
            /\ UNCHANGED <<mgr, rw_lock, pool, cb>>
       ELSE /\ rw_lock = "free"
            /\ rw_lock' = t
            /\ LET native_conn_manager == mgr.native_conn_manager IN
               /\ mgr' = [mgr EXCEPT !.native_conn_manager = NULL]
               /\ IF native_conn_manager = NULL
                  THEN \* aws_http_connection_manager_release(NULL)
                       crashed' = TRUE /\ UNCHANGED <<pool, cb, pc>>
                  ELSE \E th \in InlineChoices(t, aws_http_connection_manager_release(pool)) :
                         /\ pc' = [pc EXCEPT ![t] = "rel_unlock"]
                         /\ IF th = NoThread
                            THEN /\ pool' = aws_http_connection_manager_release(pool)
                                 /\ cb' = cb
                            ELSE /\ pool' = [pool EXCEPT !.st = "destroyed", !.idle = 0]
                                 /\ cb' = [thread |-> th, pc |-> "lock"]
                         /\ UNCHANGED crashed
    /\ UNCHANGED <<bufPairs, num_nodes, acq, held, poolShutdownEvents, calls, thrown>>
    /\ UNCHANGED connVars

\* aws_mutex_unlock, once aws_http_connection_manager_release has returned
httpConnectionManagerRelease_unlock(t) ==
    /\ ~crashed
    /\ pc[t] = "rel_unlock"
    /\ ~(cb.thread = t /\ cb.pc # "done")
    /\ rw_lock' = IF rw_lock = t THEN "free" ELSE rw_lock
    /\ pc' = [pc EXCEPT ![t] = "idle"]
    /\ UNCHANGED <<mgr, bufPairs, num_nodes, pool, cb, acq, held,
                   poolShutdownEvents, calls, thrown, crashed>>
    /\ UNCHANGED connVars

(* ------- s_on_http_conn_manager_shutdown_complete_callback ------------- *)
\* the primitive fires the callback from its event-loop thread
FireShutdownComplete ==
    /\ ~crashed
    /\ ShutdownReady(pool)
    /\ cb.pc = "none"
    /\ cb' = [thread |-> IoThread, pc |-> "lock"]
    /\ pool' = [pool EXCEPT !.st = "destroyed"]
    /\ UNCHANGED <<mgr, rw_lock, bufPairs, num_nodes, pc, acq, held,
                   poolShutdownEvents, calls, thrown, crashed>>
    /\ UNCHANGED connVars

\* aws_mutex_lock(&jni_conn_manager->rw_lock): waits while any thread holds it
s_on_http_conn_manager_shutdown_complete_callback_lock ==
    /\ ~crashed
    /\ cb.pc = "lock"
    /\ rw_lock = "free"
    /\ rw_lock' = cb.thread
    /\ cb' = [cb EXCEPT !.pc = "notify"]
    /\ UNCHANGED <<mgr, bufPairs, num_nodes, pool, pc, acq, held,
                   poolShutdownEvents, calls, thrown, crashed>>
    /\ UNCHANGED connVars

\* CallVoidMethod(java_conn_manager, onShutdownComplete)
s_on_http_conn_manager_shutdown_complete_callback_notify ==
    /\ ~crashed
    /\ cb.pc = "notify"
    /\ poolShutdownEvents' = poolShutdownEvents + 1
    /\ cb' = [cb EXCEPT !.pc = "drain"]
    /\ UNCHANGED <<mgr, rw_lock, bufPairs, num_nodes, pool, pc, acq, held,
                   calls, thrown, crashed>>
    /\ UNCHANGED connVars

\* the drain loop, the fatal assertion, and the release of the manager state
\* (DeleteGlobalRef on the listener, aws_mem_release on the manager)
s_on_http_conn_manager_shutdown_complete_callback_drain ==
    /\ ~crashed
    /\ cb.pc = "drain"
    /\ LET list == mgr.idle_java_native_buf_pairs
           n == DrainLoop(list, 0)
       IN  /\ num_nodes' = n
           /\ bufPairs' = bufPairs \ ListNodes(list)
           /\ IF mgr.max_connections = n
              THEN /\ mgr' = [mgr EXCEPT !.st = "freed",
                                         !.idle_java_native_buf_pairs = <<>>,
                                         !.java_conn_manager = FALSE]
                   /\ cb' = [cb EXCEPT !.pc = "cleanup"]
                   /\ UNCHANGED <<rw_lock, crashed>>
              ELSE /\ crashed' = TRUE
                   /\ mgr' = [mgr EXCEPT !.idle_java_native_buf_pairs = <<>>]
                   /\ UNCHANGED <<rw_lock, cb>>
    /\ UNCHANGED <<pool, pc, acq, held, poolShutdownEvents, calls, thrown>>
    /\ UNCHANGED connVars

\* aws_mutex_clean_up(&jni_conn_manager->rw_lock), after the manager was
\* released: a write into freed memory, which faults or goes unnoticed
s_on_http_conn_manager_shutdown_complete_callback_cleanup ==
    /\ ~crashed
    /\ cb.pc = "cleanup"
    /\ rw_lock' = "destroyed"
    /\ cb' = [cb EXCEPT !.pc = "done"]
    /\ crashed' \in BOOLEAN
    /\ UNCHANGED <<mgr, bufPairs, num_nodes, pool, pc, acq, held,
                   poolShutdownEvents, calls, thrown>>
    /\ UNCHANGED connVars

(* ------------------ s_on_http_conn_acquisition_callback ---------------- *)
\* a failed acquisition is logged but never reported to the listener
Mut_acquisition_callback_drops_errors(a, connection, error_code) ==
    IF error_code # 0
    THEN acq' = [acq EXCEPT ![a].st = "done"] /\ UNCHANGED <<held, crashed>>
    ELSE /\ acq' = [acq EXCEPT ![a].st = "done",
                               ![a].events = Append(@, [conn |-> connection,
                                                        err |-> error_code])]
         /\ held' = held + 1
         /\ UNCHANGED crashed

\* forwards (connection, error_code) to the listener's onConnectionAcquired;
\* it reads jvm and java_conn_manager from the manager state
s_on_http_conn_acquisition_callback(a, connection, error_code) ==
    \* on a manager that was freed the reads fault, or find the old values
    \/ /\ mgr.st # "live"
       /\ crashed' = TRUE /\ UNCHANGED <<acq, held>>
    \/ /\ acq' = [acq EXCEPT ![a].st = "done",
                              ![a].events = Append(@, [conn |-> connection,
                                                       err |-> error_code])]
       /\ held' = IF connection # NULL THEN held + 1 ELSE held
       /\ UNCHANGED crashed

(* ------------ httpConnectionManagerAcquireConnection ------------------- *)
\* the value a read of jni_conn_manager->native_conn_manager yields; the read
\* takes no lock, and after the manager state was released it reads freed memory
ReadNativeConnManager ==
    IF mgr.st = "freed" THEN {NULL, GARBAGE} ELSE {mgr.native_conn_manager}

\* the null check and the read of the pool reference
httpConnectionManagerAcquireConnection(t, jni_conn_manager_ptr) ==
    /\ ~crashed
    /\ pc[t] = "idle"
    /\ calls.acquire < MaxAcquires
    /\ IF jni_conn_manager_ptr = NULL
       THEN aws_jni_throw_runtime_exception("Connection Manager can't be null")
            /\ UNCHANGED <<pc, acq, calls>>
       ELSE \E conn_manager \in ReadNativeConnManager :
              /\ acq' = [acq EXCEPT ![calls.acquire + 1] =
                           [st |-> "read", thread |-> t, ptr |-> conn_manager,
                            events |-> <<>>]]
              /\ pc' = [pc EXCEPT ![t] = "acq_forward"]
              /\ calls' = [calls EXCEPT !.acquire = @ + 1]
              /\ NoException
    /\ UNCHANGED <<mgr, rw_lock, bufPairs, num_nodes, pool, cb, held,
                   poolShutdownEvents, crashed>>
    /\ UNCHANGED connVars

\* aws_http_connection_manager_acquire_connection(conn_manager, callback, manager)
httpConnectionManagerAcquireConnection_forward(t) ==
    /\ ~crashed
    /\ pc[t] = "acq_forward"
    /\ \E a \in AcqIds :
         /\ acq[a].st = "read" /\ acq[a].thread = t
         /\ pc' = [pc EXCEPT ![t] = "idle"]
         /\ IF acq[a].ptr = POOL /\ pool.st = "ready"
            THEN /\ pool' = [pool EXCEPT !.pending = Append(@, a)]
                 /\ acq' = [acq EXCEPT ![a] = [NoAcq EXCEPT !.st = "pending"]]
                 /\ UNCHANGED crashed
            ELSE IF acq[a].ptr = POOL /\ pool.st = "shutting_down"
            THEN \* not a valid call once shutdown has begun: it is refused with
                 \* an error event or it trips the primitive's state check
                 \/ /\ pool' = [pool EXCEPT !.pending = Append(@, a)]
                    /\ acq' = [acq EXCEPT ![a] = [NoAcq EXCEPT !.st = "pending"]]
                    /\ UNCHANGED crashed
                 \/ /\ crashed' = TRUE
                    /\ acq' = [acq EXCEPT ![a] = [NoAcq EXCEPT !.st = "faulted"]]
                    /\ UNCHANGED pool
            ELSE \* a null, stale or garbage pool pointer is dereferenced
                 \/ /\ crashed' = TRUE
                    /\ acq' = [acq EXCEPT ![a] = [NoAcq EXCEPT !.st = "faulted"]]
                    /\ UNCHANGED pool
                 \/ /\ acq[a].ptr # NULL
                    /\ acq' = [acq EXCEPT ![a] = [NoAcq EXCEPT !.st = "lost"]]
                    /\ UNCHANGED <<pool, crashed>>
                 \* the released memory still reads as a pool that is shut
                 \* down: the call is answered with an error through the callback
                 \/ /\ acq[a].ptr # NULL
                    /\ s_on_http_conn_acquisition_callback(a, NULL, ERR)
                    /\ UNCHANGED pool
    /\ UNCHANGED <<mgr, rw_lock, bufPairs, num_nodes, cb, held,
                   poolShutdownEvents, calls, thrown>>
    /\ UNCHANGED connVars

(* --------- pooling primitive: serving the queue of acquires ------------ *)
\* the head of the queue takes an idle connection, or a connect is started for it
PoolServe ==
    /\ ~crashed
    /\ pool.st = "ready"
    /\ pool.pending # <<>>
    /\ IF pool.idle > 0
       THEN /\ pool' = [pool EXCEPT !.idle = @ - 1, !.vended = @ + 1,
                                    !.pending = Tail(@)]
            /\ s_on_http_conn_acquisition_callback(Head(pool.pending), "conn", 0)
       ELSE /\ Len(pool.pending) > pool.connecting
            /\ pool.connecting + pool.vended < pool.max_connections
            /\ pool' = [pool EXCEPT !.connecting = @ + 1]
            /\ UNCHANGED <<acq, held, crashed>>
    /\ UNCHANGED <<mgr, rw_lock, bufPairs, num_nodes, pc, cb,
                   poolShutdownEvents, calls, thrown>>
    /\ UNCHANGED connVars

\* a connect finishes: the transport produced a channel (ok) or an error
PoolConnectDone(ok) ==
    /\ ~crashed
    /\ pool.st \in {"ready", "shutting_down"}
    /\ pool.connecting > 0
    /\ IF pool.st = "ready" /\ pool.pending # <<>>
       THEN /\ pool' = [pool EXCEPT !.connecting = @ - 1,
                                    !.vended = IF ok THEN @ + 1 ELSE @,
                                    !.pending = Tail(@)]
            /\ IF ok
               THEN s_on_http_conn_acquisition_callback(Head(pool.pending), "conn", 0)
               ELSE s_on_http_conn_acquisition_callback(Head(pool.pending), NULL, ERR)
       ELSE \* nobody waits, or the pool is shutting down and closes it at once
            /\ pool' = [pool EXCEPT !.connecting = @ - 1,
                                    !.idle = IF ok /\ pool.st = "ready" THEN @ + 1 ELSE @]
            /\ UNCHANGED <<acq, held, crashed>>
    /\ UNCHANGED <<mgr, rw_lock, bufPairs, num_nodes, pc, cb,
                   poolShutdownEvents, calls, thrown>>
    /\ UNCHANGED connVars

\* during teardown every acquire still queued completes with an error
PoolFailPending ==
    /\ ~crashed
    /\ pool.st = "shutting_down"
    /\ pool.pending # <<>>
    /\ pool' = [pool EXCEPT !.pending = Tail(@)]
    /\ s_on_http_conn_acquisition_callback(Head(pool.pending), NULL, ERR)
    /\ UNCHANGED <<mgr, rw_lock, bufPairs, num_nodes, pc, cb,
                   poolShutdownEvents, calls, thrown>>
    /\ UNCHANGED connVars

(* ----------- httpConnectionManagerReleaseConnection -------------------- *)
\* a connection goes back to the pool it was vended from
aws_http_connection_manager_release_connection(p) ==
    IF p.st = "ready"
    THEN [p EXCEPT !.vended = @ - 1, !.idle = @ + 1]
    ELSE [p EXCEPT !.vended = @ - 1]

\* the pool pointer the handler forwards: the handle itself, cast
ReleaseConnectionTarget(jni_conn_manager) == jni_conn_manager

\* the connection is not checked
Mut_release_connection_check_manager_only(conn_manager, conn) ==
    IF conn_manager = NULL THEN "Connection Manager can't be null" ELSE "none"

\* the two null checks: the message of the first that fails, or "none"
httpConnectionManagerReleaseConnection_check(conn_manager, conn) ==
    IF conn_manager = NULL THEN "Connection Manager can't be null"
    ELSE IF conn = NULL THEN "Connection can't be null"
    ELSE "none"

httpConnectionManagerReleaseConnection(t, jni_conn_manager, jni_conn) ==
    /\ ~crashed
    /\ pc[t] = "idle"
    /\ jni_conn # NULL => held > 0
    /\ LET conn_manager == ReleaseConnectionTarget(jni_conn_manager)
           error == httpConnectionManagerReleaseConnection_check(conn_manager, jni_conn)
       IN
       IF error # "none"
       THEN aws_jni_throw_runtime_exception(error)
            /\ UNCHANGED <<pool, held, crashed>>
       ELSE /\ held' = held - 1
            /\ NoException
            /\ IF conn_manager = POOL
               THEN /\ pool' = aws_http_connection_manager_release_connection(pool)
                    /\ UNCHANGED crashed
               ELSE \* the primitive is handed memory that is no pool of its own:
                    \* it faults, or the connection never reaches the real pool
                    \/ crashed' = TRUE /\ UNCHANGED pool
                    \/ UNCHANGED <<pool, crashed>>
    /\ UNCHANGED <<mgr, rw_lock, bufPairs, num_nodes, pc, cb, acq,
                   poolShutdownEvents, calls>>
    /\ UNCHANGED connVars

(* --------------------------- specification ----------------------------- *)
\* the handles a caller can pass: null, or the one create returned
Handles == IF mgr.st = "none" THEN {NULL} ELSE {NULL, MGR}

CallCreate ==
    \E bootstrap \in {NULL, "bootstrap"}, socket_options \in {NULL, "socket_options"},
       tls_ctx \in {NULL, "tls_ctx"}, buf_size \in {0, 16},
       window_size \in {-1, 0, 1}, port \in {-1, 0, 443, 65536}, max_conns \in -1..MaxConns :
         httpConnectionManagerNew(bootstrap, socket_options, tls_ctx, buf_size,
                                  window_size, port, max_conns, "ok")

\* a create call whose allocations may fail
CallCreateAny ==
    \E bootstrap \in {NULL, "bootstrap"}, socket_options \in {NULL, "socket_options"},
       tls_ctx \in {NULL, "tls_ctx"}, buf_size \in {0, 16},
       window_size \in {-1, 0, 1}, port \in {-1, 0, 443, 65536}, max_conns \in -1..MaxConns,
       outcome \in CreateOutcomes :
         httpConnectionManagerNew(bootstrap, socket_options, tls_ctx, buf_size,
                                  window_size, port, max_conns, outcome)

CallShutdown == \E t \in JavaThreads, h \in Handles : httpConnectionManagerRelease(t, h)

ShutdownLocked == \E t \in JavaThreads : httpConnectionManagerRelease_locked(t)

ShutdownUnlock == \E t \in JavaThreads : httpConnectionManagerRelease_unlock(t)

CallAcquire ==
    \E t \in JavaThreads, h \in Handles : httpConnectionManagerAcquireConnection(t, h)

AcquireForward == \E t \in JavaThreads : httpConnectionManagerAcquireConnection_forward(t)

CallReleaseConnection ==
    \E t \in JavaThreads, h \in Handles, c \in {NULL, "conn"} :
        httpConnectionManagerReleaseConnection(t, h, c)

ConnectDone == \E ok \in BOOLEAN : PoolConnectDone(ok)

NextPool ==
    \/ CallCreate
    \/ CallShutdown
    \/ ShutdownLocked
    \/ ShutdownUnlock
    \/ FireShutdownComplete
    \/ s_on_http_conn_manager_shutdown_complete_callback_lock
    \/ s_on_http_conn_manager_shutdown_complete_callback_notify
    \/ s_on_http_conn_manager_shutdown_complete_callback_drain
    \/ s_on_http_conn_manager_shutdown_complete_callback_cleanup
    \/ CallAcquire
    \/ AcquireForward
    \/ PoolServe
    \/ ConnectDone
    \/ PoolFailPending
    \/ CallReleaseConnection

PoolSpec == Init /\ [][NextPool]_vars

\* pools created on a plaintext port as well as on 443, and their acquires
CallCreateOnPort ==
    \E tls_ctx \in {NULL, "tls_ctx"}, port \in {0, 80, 443, 8080}, max_conns \in 0..MaxConns :
         httpConnectionManagerNew("bootstrap", "socket_options", tls_ctx, 16,
                                  1, port, max_conns, "ok")

NextTls ==
    \/ CallCreateOnPort
    \/ CallAcquire
    \/ AcquireForward
    \/ PoolServe
    \/ ConnectDone

TlsSpec == Init /\ [][NextTls]_vars

\* the same operations on a pool whose construction is not assumed to succeed
NextPartialInit ==
    \/ CallCreateAny
    \/ CallShutdown
    \/ ShutdownLocked
    \/ ShutdownUnlock
    \/ FireShutdownComplete
    \/ s_on_http_conn_manager_shutdown_complete_callback_lock
    \/ s_on_http_conn_manager_shutdown_complete_callback_notify
    \/ s_on_http_conn_manager_shutdown_complete_callback_drain
    \/ s_on_http_conn_manager_shutdown_complete_callback_cleanup
    \/ CallAcquire
    \/ AcquireForward
    \/ PoolServe
    \/ ConnectDone
    \/ PoolFailPending
    \/ CallReleaseConnection

PartialInitSpec == Init /\ [][NextPartialInit]_vars

\* the steps a thread or the primitive takes once an operation is under way;
\* the operating system and the event loop schedule each of them eventually
PoolProgress ==
    /\ \A t \in JavaThreads : WF_vars(httpConnectionManagerRelease_locked(t))
    /\ \A t \in JavaThreads : WF_vars(httpConnectionManagerRelease_unlock(t))
    /\ \A t \in JavaThreads : WF_vars(httpConnectionManagerAcquireConnection_forward(t))
    /\ WF_vars(FireShutdownComplete)
    /\ WF_vars(s_on_http_conn_manager_shutdown_complete_callback_lock)
    /\ WF_vars(s_on_http_conn_manager_shutdown_complete_callback_notify)
    /\ WF_vars(s_on_http_conn_manager_shutdown_complete_callback_drain)
    /\ WF_vars(s_on_http_conn_manager_shutdown_complete_callback_cleanup)
    /\ WF_vars(PoolServe)
    /\ WF_vars(ConnectDone)
    /\ WF_vars(PoolFailPending)

\* create, then one shutdown call, and no other pool operation
CallShutdownOnce == calls.release = 0 /\ CallShutdown

NextShutdown ==
    \/ CallCreate
    \/ CallShutdownOnce
    \/ ShutdownLocked
    \/ ShutdownUnlock
    \/ FireShutdownComplete
    \/ s_on_http_conn_manager_shutdown_complete_callback_lock
    \/ s_on_http_conn_manager_shutdown_complete_callback_notify
    \/ s_on_http_conn_manager_shutdown_complete_callback_drain
    \/ s_on_http_conn_manager_shutdown_complete_callback_cleanup

ShutdownSpec == Init /\ [][NextShutdown]_vars /\ PoolProgress

\* create, then acquire calls on the live pool: no release, no shutdown
NextAcquire ==
    \/ CallCreate
    \/ CallAcquire
    \/ AcquireForward
    \/ PoolServe
    \/ ConnectDone

AcquireSpec == Init /\ [][NextAcquire]_vars /\ PoolProgress

(* ======================= http_connection.c ============================= *)

(* -------------------------- httpConnectionNew -------------------------- *)
\* TLS is chosen from the port number
UseTls(port) == ~(port = 80 \/ port = 8080)

\* struct aws_http_client_connection_options http_options: .tls_options always
\* points at tls_conn_options, which is initialised from the context only when
\* use_tls is set and is all zero otherwise
client_connection_options(port, jni_tls_ctx) ==
    [port |-> port,
     tls_options |-> "tls_conn_options",
     tls_ctx |-> IF UseTls(port) THEN jni_tls_ctx ELSE NULL]

\* aws_http_client_connect: the connect is under way ("connecting") and on_setup
\* will report its result, or the call itself fails ("refused") and no callback
\* ever runs; httpConnectionNew does not look at the returned value. Given TLS
\* options that name no context the transport may also fault.
aws_http_client_connect(options) ==
    IF options.tls_options # NULL /\ options.tls_ctx = NULL
    THEN {"connecting", "refused", "fault"}
    ELSE {"connecting", "refused"}

httpConnectionNew(jni_client_bootstrap, jni_socket_options, jni_tls_ctx, port) ==
    /\ ~crashed
    /\ hc.st = "none"
    /\ IF jni_client_bootstrap = NULL
       THEN aws_jni_throw_runtime_exception("HttpConnection.httpConnectionNew: jni_client_bootstrap must not be null")
            /\ UNCHANGED <<connVars, crashed>>
       ELSE IF jni_socket_options = NULL
       THEN aws_jni_throw_runtime_exception("HttpConnection.httpConnectionNew: jni_socket_options must not be null")
            /\ UNCHANGED <<connVars, crashed>>
       ELSE IF port = 0
       THEN aws_jni_throw_runtime_exception("HttpConnection.httpConnectionNew: Port must be between 1 and 65535")
            /\ UNCHANGED <<connVars, crashed>>
       ELSE IF UseTls(port) /\ jni_tls_ctx = NULL
       THEN aws_jni_throw_runtime_exception("HttpConnection.httpConnectionNew: jni_tls_ctx_options must not be null")
            /\ UNCHANGED <<connVars, crashed>>
       ELSE LET options == client_connection_options(port, jni_tls_ctx) IN
            \E outcome \in aws_http_client_connect(options) :
              /\ hc' = [NoConn EXCEPT !.st = "live", !.java_http_conn = TRUE]
              /\ http_options' = options
              /\ IF outcome = "fault"
                 THEN crashed' = TRUE /\ UNCHANGED tr
                 ELSE tr' = outcome /\ UNCHANGED crashed
              /\ NoException
              /\ UNCHANGED <<connEvents, req, closes>>
    /\ UNCHANGED poolVars

\* every callback reaches the JVM through the handle (http_jni_conn->jvm,
\* callback->connection->jvm); once the handle was released that is a read of
\* freed memory, which faults or goes unnoticed
callback_connection_jvm ==
    IF hc.st = "destroyed" THEN crashed' \in BOOLEAN ELSE UNCHANGED crashed

(* ------------- s_on_http_conn_setup / s_on_http_conn_shutdown ---------- *)
\* stores the native pointer and reports the status to onConnectionComplete
s_on_http_conn_setup(connection, error_code) ==
    /\ hc' = [hc EXCEPT !.native_http_conn = connection]
    /\ connEvents' = IF hc.java_http_conn
                     THEN Append(connEvents, [ev |-> "complete", code |-> error_code])
                     ELSE connEvents

\* the shutdown the caller asked for is not reported
Mut_shutdown_silent_after_close(error_code) ==
    connEvents' = IF hc.java_http_conn /\ hc.disconnect_requested # "true"
                  THEN Append(connEvents, [ev |-> "shutdown", code |-> error_code])
                  ELSE connEvents

\* reports the status to onConnectionShutdown
s_on_http_conn_shutdown(error_code) ==
    connEvents' = IF hc.java_http_conn
                  THEN Append(connEvents, [ev |-> "shutdown", code |-> error_code])
                  ELSE connEvents

\* the transport finishes the connect: on_setup fires once, with a connection
\* and code 0, or with no connection and an error
TransportSetup(ok) ==
    /\ ~crashed
    /\ tr = "connecting"
    /\ tr' = IF ok THEN "open" ELSE "failed"
    /\ IF ok THEN s_on_http_conn_setup("conn", 0) ELSE s_on_http_conn_setup(NULL, ERR)
    /\ callback_connection_jvm
    /\ UNCHANGED <<req, closes, http_options, poolVars, thrown>>

\* the peer closes an open connection
TransportRemoteClose ==
    /\ ~crashed
    /\ tr = "open"
    /\ tr' = "closing"
    /\ UNCHANGED <<hc, connEvents, req, closes, http_options, poolVars, thrown, crashed>>

\* a request whose stream the engine has created and not yet completed
InFlight(r) == req[r].stream \notin {"none", "rejected", "complete"}

\* on_shutdown fires once after a successful setup, when every stream is over
TransportShutdown(error_code) ==
    /\ ~crashed
    /\ tr = "closing"
    /\ \A r \in ReqIds : ~InFlight(r)
    /\ tr' = "closed"
    /\ s_on_http_conn_shutdown(error_code)
    /\ callback_connection_jvm
    /\ UNCHANGED <<hc, req, closes, http_options, poolVars, thrown>>

(* ------------------------- httpConnectionClose ------------------------- *)
\* close reports the connection-shutdown event itself, at once, instead of
\* leaving it to the transport's on_shutdown
Mut_close_reports_shutdown_itself ==
    /\ ~crashed
    /\ hc.st = "live"
    /\ hc.native_http_conn = "conn"
    /\ closes < MaxCloseCalls
    /\ closes' = closes + 1
    /\ hc' = [hc EXCEPT !.disconnect_requested = "true"]
    /\ req' = [r \in ReqIds |-> [req[r] EXCEPT !.atClose = @ \/ InFlight(r)]]
    /\ tr' = IF tr = "open" THEN "closing" ELSE tr
    /\ connEvents' = Append(connEvents, [ev |-> "shutdown", code |-> 0])
    /\ NoException
    /\ UNCHANGED <<http_options, poolVars, crashed>>

httpConnectionClose ==
    /\ ~crashed
    /\ hc.st = "live"
    /\ hc' = [hc EXCEPT !.disconnect_requested = "true"]
    /\ req' = [r \in ReqIds |-> [req[r] EXCEPT !.atClose = @ \/ InFlight(r)]]
    /\ IF hc.native_http_conn = "conn"
       THEN \* aws_http_connection_close on the established connection
            /\ closes < MaxCloseCalls
            /\ closes' = closes + 1
            /\ tr' = IF tr = "open" THEN "closing" ELSE tr
            /\ UNCHANGED crashed
       ELSE IF hc.native_http_conn = NULL
       THEN \* aws_http_connection_close(NULL)
            crashed' = TRUE /\ UNCHANGED <<tr, closes>>
       ELSE \* the field was never written: the transport is handed whatever the
            \* allocation held; it faults, or acts on memory that is not this
            \* handle's connection
            \/ crashed' = TRUE /\ UNCHANGED <<tr, closes>>
            \/ UNCHANGED <<tr, crashed, closes>>
    /\ NoException
    /\ UNCHANGED <<connEvents, http_options, poolVars>>

(* ------------------------ httpConnectionDestroy ------------------------ *)
\* deletes the global reference on the connection listener and releases the handle
httpConnectionDestroy ==
    /\ ~crashed
    /\ hc.st = "live"
    /\ hc' = [hc EXCEPT !.st = "destroyed", !.java_http_conn = FALSE]
    /\ NoException
    /\ UNCHANGED <<tr, connEvents, req, closes, http_options, poolVars, crashed>>

(* ------------------ request streaming callbacks ------------------------ *)
\* onResponseComplete(err_code) when the status cannot be read, then onHeaders
s_on_incoming_headers_fn(log, err_code) ==
    IF err_code # 0
    THEN log \o <<"COMPLETE", "HEADERS">>
    ELSE Append(log, "HEADERS")

\* NewObjectArray(num_headers, header_class, NULL): an HttpHeader is built for
\* every native header, but no element of the array is ever set
s_java_headers_array_from_native(header_array) ==
    [i \in 1..Len(header_array) |-> NullElement]

\* the callback returns the state the listener's answer selects
Mut_outgoing_body_always_in_progress(isDone) == "IN_PROGRESS"

\* sendOutgoingBody's answer: true is "body complete", false is "more follows"
s_stream_outgoing_body_fn(isDone) ==
    IF isDone THEN "DONE" ELSE "IN_PROGRESS"

s_on_incoming_header_block_done_fn(log, has_body) == Append(log, "HEADERS_DONE")

s_on_incoming_body_fn(log) == Append(log, "BODY")

s_on_stream_complete_fn(log, error_code) == Append(log, "COMPLETE")

(* ------------------- httpConnectionExecuteRequest ---------------------- *)
\* what aws_http_stream_new_client_request makes of the options: they name the
\* callbacks and the user data but no connection, so whether a stream comes to
\* exist on this handle's connection is the engine's choice
StreamOutcomes == IF tr = "open" THEN {"submitted", "rejected"} ELSE {"rejected"}

\* the header lists a caller submits: none, or the single pair ("X-Test", "1")
RequestHeaders == {<<>>, << <<"X-Test", "1">> >>}

\* the handler is checked only after the request context was allocated
Mut_execute_request_checks_handler_late(r, jni_connection, jni_callback_handler) ==
    /\ ~crashed
    /\ hc.st = "live"
    /\ req[r] = NoReq
    /\ \A q \in ReqIds : q < r => req[q] # NoReq
    /\ IF jni_connection = NULL
       THEN aws_jni_throw_runtime_exception("HttpConnection.ExecuteRequest: Invalid connection")
            /\ UNCHANGED req
       ELSE IF jni_callback_handler = NULL
       THEN aws_jni_throw_runtime_exception("HttpConnection.ExecuteRequest: Invalid handler")
            /\ req' = [req EXCEPT ![r] = [NoReq EXCEPT !.ctx = TRUE]]
       ELSE \E outcome \in StreamOutcomes, jni_headers \in RequestHeaders :
              /\ req' = [req EXCEPT ![r] = [NoReq EXCEPT !.ctx = TRUE, !.stream = outcome,
                                                          !.jni_http_callback_handler = TRUE,
                                                          !.headers = jni_headers]]
              /\ NoException
    /\ UNCHANGED <<hc, tr, connEvents, closes, http_options, poolVars, crashed>>

httpConnectionExecuteRequest(r, jni_connection, jni_callback_handler) ==
    /\ ~crashed
    /\ hc.st = "live"
    /\ req[r] = NoReq
    /\ \A q \in ReqIds : q < r => req[q] # NoReq
    /\ IF jni_connection = NULL
       THEN aws_jni_throw_runtime_exception("HttpConnection.ExecuteRequest: Invalid connection")
            /\ UNCHANGED req
       ELSE IF jni_callback_handler = NULL
       THEN aws_jni_throw_runtime_exception("HttpConnection.ExecuteRequest: Invalid handler")
            /\ UNCHANGED req
       ELSE \E outcome \in StreamOutcomes, jni_headers \in RequestHeaders :
              /\ req' = [req EXCEPT ![r] = [NoReq EXCEPT !.ctx = TRUE, !.stream = outcome,
                                                          !.jni_http_callback_handler = TRUE,
                                                          !.headers = jni_headers]]
              /\ NoException
    /\ UNCHANGED <<hc, tr, connEvents, closes, http_options, poolVars, crashed>>

(* ----------------- stream engine: events of one response --------------- *)
Count(log, e) == Cardinality({i \in 1..Len(log) : log[i] = e})

\* the engine asks for the next piece of the request body until it is told
\* the body is complete
StreamOutgoingBody(r, isDone) ==
    /\ ~crashed
    /\ req[r].stream = "submitted"
    /\ req[r].out # "DONE"
    /\ req[r].fills < MaxBodyFills
    /\ req' = [req EXCEPT ![r].fills = @ + 1,
                          ![r].callerDone = @ \/ isDone,
                          ![r].out = s_stream_outgoing_body_fn(isDone)]
    /\ callback_connection_jvm
    /\ UNCHANGED <<hc, tr, connEvents, closes, http_options, poolVars, thrown>>

\* the endpoint echoes the request's headers: the engine hands them to the
\* headers callback
StreamHeaders(r, err_code) ==
    /\ ~crashed
    /\ req[r].stream \in {"submitted", "headers"}
    /\ Count(req[r].log, "HEADERS") < MaxHeaderBlocks
    /\ req' = [req EXCEPT ![r].stream = "headers",
                          ![r].jHeaders = s_java_headers_array_from_native(req[r].headers),
                          ![r].log = s_on_incoming_headers_fn(@, err_code)]
    /\ callback_connection_jvm
    /\ UNCHANGED <<hc, tr, connEvents, closes, http_options, poolVars, thrown>>

StreamHeadersDone(r, has_body) ==
    /\ ~crashed
    /\ req[r].stream \in {"submitted", "headers"}
    /\ req' = [req EXCEPT ![r].stream = "headers_done", ![r].has_body = has_body,
                          ![r].log = s_on_incoming_header_block_done_fn(@, has_body)]
    /\ callback_connection_jvm
    /\ UNCHANGED <<hc, tr, connEvents, closes, http_options, poolVars, thrown>>

StreamBody(r) ==
    /\ ~crashed
    /\ req[r].stream \in {"headers_done", "body"}
    /\ req[r].has_body
    /\ Count(req[r].log, "BODY") < MaxBodyChunks
    /\ req' = [req EXCEPT ![r].stream = "body", ![r].log = s_on_incoming_body_fn(@)]
    /\ callback_connection_jvm
    /\ UNCHANGED <<hc, tr, connEvents, closes, http_options, poolVars, thrown>>

\* the response is complete (code 0), or the transport failed or is closing
StreamComplete(r, error_code) ==
    /\ ~crashed
    /\ InFlight(r)
    /\ error_code = 0 => req[r].stream \in {"headers_done", "body"}
    /\ req' = [req EXCEPT ![r].stream = "complete",
                          ![r].log = s_on_stream_complete_fn(@, error_code)]
    /\ callback_connection_jvm
    /\ UNCHANGED <<hc, tr, connEvents, closes, http_options, poolVars, thrown>>

\* on a closing connection every stream still open completes with an error
StreamAbort(r) ==
    /\ tr = "closing"
    /\ StreamComplete(r, ERR)

(* --------------------------- specification ----------------------------- *)
CallConnect ==
    \E b \in {NULL, "bootstrap"}, so \in {NULL, "socket_options"},
       tls \in {NULL, "tls_ctx"}, port \in {0, 80, 8080, 443} :
         httpConnectionNew(b, so, tls, port)

ConnectionSetup == \E ok \in BOOLEAN : TransportSetup(ok)

ConnectionShutdown == \E code \in {0, ERR} : TransportShutdown(code)

CallExecuteRequest ==
    \E r \in ReqIds, h \in {NULL, "http_jni_conn"}, l \in {NULL, "listener"} :
        httpConnectionExecuteRequest(r, h, l)

OutgoingBody == \E r \in ReqIds, isDone \in BOOLEAN : StreamOutgoingBody(r, isDone)

Headers == \E r \in ReqIds, e \in {0, ERR} : StreamHeaders(r, e)

HeadersDone == \E r \in ReqIds, b \in BOOLEAN : StreamHeadersDone(r, b)

Body == \E r \in ReqIds : StreamBody(r)

Complete == \E r \in ReqIds, e \in {0, ERR} : StreamComplete(r, e)

NextConn ==
    \/ CallConnect
    \/ ConnectionSetup
    \/ TransportRemoteClose
    \/ ConnectionShutdown
    \/ httpConnectionClose
    \/ CallExecuteRequest
    \/ OutgoingBody
    \/ Headers
    \/ HeadersDone
    \/ Body
    \/ Complete

ConnProgress ==
    /\ WF_vars(ConnectionSetup)
    /\ WF_vars(ConnectionShutdown)
    /\ \A r \in ReqIds : WF_vars(StreamAbort(r))

ConnSpec == Init /\ [][NextConn]_vars /\ ConnProgress

\* the connection listener has received the connection-shutdown event
ShutdownDelivered == \E i \in 1..Len(connEvents) : connEvents[i].ev = "shutdown"

\* one connection that carries a single request
CallExecuteFirstRequest ==
    \E h \in {NULL, "http_jni_conn"}, l \in {NULL, "listener"} :
        httpConnectionExecuteRequest(1, h, l)

NextOneRequest ==
    \/ CallConnect
    \/ ConnectionSetup
    \/ TransportRemoteClose
    \/ ConnectionShutdown
    \/ httpConnectionClose
    \/ CallExecuteFirstRequest
    \/ OutgoingBody
    \/ Headers
    \/ HeadersDone
    \/ Body
    \/ Complete

OneRequestSpec == Init /\ [][NextOneRequest]_vars /\ ConnProgress

\* the caller destroys the handle once it has seen the connection-shutdown event
CallDestroy == ShutdownDelivered /\ httpConnectionDestroy

NextDestroy ==
    \/ NextOneRequest
    \/ CallDestroy

DestroySpec == Init /\ [][NextDestroy]_vars /\ ConnProgress

(* =============================== claims ================================ *)

\* C1: create followed immediately by shutdown, with no acquire in between,
\* eventually delivers pool-shutdown-complete and drains exactly
\* max_connections buffers, whichever thread runs the primitive's callback.
C1_ShutdownDeliversAndDrains ==
    (calls.release = 1) ~> (poolShutdownEvents = 1 /\ num_nodes = mgr.max_connections)

\* C2: pool-shutdown-complete is never delivered to the caller while a buffer
\* pair of the pool is still allocated.
C2_NoCompletionBeforeDrain == poolShutdownEvents > 0 => bufPairs = {}

\* C3: whenever the drain has run, the number of pairs it freed equals the
\* number allocated at construction (max_connections) and none is left, so the
\* fatal assertion holds, whatever acquire and release calls came before.
C3_DrainCountEqualsAllocated ==
    num_nodes # -1 => (num_nodes = mgr.max_connections /\ bufPairs = {})

C3_Witness ==
    /\ cb.pc = "done" /\ num_nodes = 2 /\ mgr.max_connections = 2
    /\ \E a \in AcqIds : acq[a].events # <<>>

\* an acquisition event carries a connection and error 0, or no connection and
\* a non-zero error
WellFormedAcquisition(e) ==
    \/ e.conn # NULL /\ e.err = 0
    \/ e.conn = NULL /\ e.err # 0

\* C4 as stated: with N <= max_connections acquire calls on a live pool, every
\* acquisition event carries a valid connection.
C4_EveryAcquisitionCarriesConnection ==
    calls.acquire <= mgr.max_connections =>
        \A a \in AcqIds : \A i \in 1..Len(acq[a].events) : acq[a].events[i].conn # NULL

\* C4 amended: with N <= max_connections acquire calls on a live pool, every
\* call eventually receives exactly one acquisition-complete event; the event
\* carries a valid connection (and error 0) when the connection was
\* established, and no connection with a non-zero error when connecting failed.
C4_AcquireCompletesOnce ==
    /\ [](\A a \in AcqIds :
            /\ Len(acq[a].events) <= 1
            /\ \A i \in 1..Len(acq[a].events) : WellFormedAcquisition(acq[a].events[i]))
    /\ \A a \in AcqIds :
         [](acq[a].st \in {"read", "pending"} =>
              <>(Len(acq[a].events) = 1 \/ calls.acquire > mgr.max_connections))

C4_Witness ==
    /\ mgr.max_connections = 2 /\ calls.acquire = 2
    /\ acq[1].events # <<>> /\ acq[2].events # <<>>
    /\ \E a \in {1, 2} : acq[a].events[1].conn = NULL

C6_NoAcquireDropped ==
    \A a \in AcqIds :
        /\ acq[a].st \notin {"lost", "faulted"}
        /\ Len(acq[a].events) <= 1
        /\ acq[a].st = "done" => Len(acq[a].events) = 1

\* one step of the request state machine of section 4.1 on event e
StepPath(st, e) ==
    CASE e = "HEADERS" /\ st \in {"SUBMITTED", "HEADERS"} -> "HEADERS"
      [] e = "HEADERS_DONE" /\ st \in {"SUBMITTED", "HEADERS"} -> "HEADERS_DONE"
      [] e = "BODY" /\ st \in {"HEADERS_DONE", "BODY"} -> "BODY"
      [] e = "COMPLETE" /\ st \in {"SUBMITTED", "HEADERS", "HEADERS_DONE", "BODY"} -> "COMPLETE"
      [] OTHER -> "INVALID"

RECURSIVE PathState(_, _)
PathState(st, log) ==
    IF log = <<>> THEN st ELSE PathState(StepPath(st, Head(log)), Tail(log))

\* C7: the events a request listener has received form a prefix of a path
\* SUBMITTED -> HEADERS* -> HEADERS_DONE -> BODY* -> COMPLETE (COMPLETE also
\* straight from an earlier state on failure), and stream-complete is
\* delivered exactly once: never twice, and once when the stream is over.
C7_EventsFollowStateMachine ==
    \A r \in ReqIds :
        /\ PathState("SUBMITTED", req[r].log) # "INVALID"
        /\ Count(req[r].log, "COMPLETE") <= 1
        /\ req[r].stream = "complete" => Count(req[r].log, "COMPLETE") = 1

\* C8: no event is delivered to a request listener after its stream-complete
\* event: COMPLETE occurs only as the last event received.
C8_NoEventAfterComplete ==
    \A r \in ReqIds : \A i \in 1..Len(req[r].log) :
        req[r].log[i] = "COMPLETE" => i = Len(req[r].log)

\* C9: a request in flight when close was called receives exactly one
\* stream-complete event, and has received it once connection-shutdown is
\* delivered.
C9_CloseCompletesInFlightOnce ==
    \A r \in ReqIds :
        req[r].atClose =>
            /\ Count(req[r].log, "COMPLETE") <= 1
            /\ ShutdownDelivered => Count(req[r].log, "COMPLETE") = 1

\* C10: every call to close is eventually followed by the connection-shutdown
\* event, also when the connection never fully connected.
C10_CloseLeadsToShutdown == (hc.disconnect_requested = "true") ~> ShutdownDelivered

ShutdownCount == Cardinality({i \in 1..Len(connEvents) : connEvents[i].ev = "shutdown"})

\* C11: close is idempotent on a connected handle: after the first close the
\* handle has disconnect_requested set and still names its connection, no later
\* step (a further close included) changes the handle, and the
\* connection-shutdown event is delivered exactly once: never twice, and
\* eventually once.
C11_CloseIdempotent ==
    /\ [](closes >= 1 => hc.disconnect_requested = "true" /\ hc.native_http_conn = "conn")
    /\ [][closes >= 1 => hc' = hc]_vars
    /\ [](ShutdownCount <= 1)
    /\ (closes >= 1) ~> (ShutdownCount = 1)

C11_Witness == closes = 2 /\ ShutdownCount = 1 /\ hc.disconnect_requested = "true"

\* C12: connect selects TLS exactly when the port is neither 80 nor 8080: the
\* transport is handed TLS options for such a port and none for 80 or 8080;
\* and while no connect call has passed its preconditions there is no handle,
\* no transport connect and no connection event.
C12_TlsExactlyOffPlaintextPorts ==
    /\ hc.st # "none" =>
          (http_options.tls_options # NULL <=> http_options.port \notin {80, 8080})
    /\ hc.st = "none" =>
          (hc = NoConn /\ tr = "none" /\ connEvents = <<>> /\ http_options = NoOptions)

SetupCount == Cardinality({i \in 1..Len(connEvents) : connEvents[i].ev = "complete"})

\* C13: a connect call that passed its preconditions is followed by exactly
\* one connection-setup event (as long as the process runs); when the
\* underlying connect failed, asynchronously or at submission, that event
\* carries a non-zero status and the handle holds no native connection.
C13_ConnectLeadsToOneSetupEvent ==
    /\ [](SetupCount <= 1)
    /\ [](tr \in {"failed", "refused"} /\ SetupCount = 1 =>
            \A i \in 1..Len(connEvents) :
                connEvents[i].ev = "complete" =>
                    (connEvents[i].code # 0 /\ hc.native_http_conn = NULL))
    /\ (hc.st = "live" /\ ~crashed) ~> (SetupCount = 1 \/ crashed)

CreateErrors ==
    {"ClientBootstrap can't be null", "SocketOptions can't be null",
     "Port must be between 1 and 65535", "Window Size must be > 0",
     "Max Connections must be > 0"}

\* C14: a pool create with max_connections <= 0, a port outside 1..65535, a
\* window_size <= 0, a null bootstrap or null socket options throws an explicit
\* error and changes nothing: there is no manager state, no buffer pair, no
\* lock and no pooling primitive afterwards.
C14_CreateRejectsInvalidArguments ==
    [][mgr.st = "none" =>
       \A bootstrap \in {NULL, "bootstrap"}, socket_options \in {NULL, "socket_options"},
          tls_ctx \in {NULL, "tls_ctx"}, buf_size \in {0, 16},
          window_size \in {-1, 0, 1}, port \in {-1, 0, 443, 65536}, max_conns \in -1..MaxConns :
            (/\ \/ max_conns <= 0 \/ port \notin 1..65535 \/ window_size <= 0
                \/ bootstrap = NULL \/ socket_options = NULL
             /\ httpConnectionManagerNew(bootstrap, socket_options, tls_ctx, buf_size,
                                         window_size, port, max_conns, "ok"))
            => (/\ thrown' \in CreateErrors
                /\ mgr' = NoMgr /\ bufPairs' = {} /\ pool' = NoPool
                /\ rw_lock' = "free")]_vars

C14_Witness ==
    /\ thrown = "Max Connections must be > 0"
    /\ mgr = NoMgr /\ bufPairs = {} /\ pool = NoPool

\* C15: release-connection with a null pool handle or a null connection throws
\* an explicit error and forwards nothing to the pooling primitive: the pool's
\* idle and in-use connections, and what the caller holds, are unchanged.
C15_ReleaseConnectionRejectsNull ==
    [][\A t \in JavaThreads, h \in {NULL, MGR}, c \in {NULL, "conn"} :
            ((h = NULL \/ c = NULL) /\ httpConnectionManagerReleaseConnection(t, h, c))
            => (/\ thrown' \in {"Connection Manager can't be null", "Connection can't be null"}
                /\ pool' = pool /\ held' = held /\ ~crashed')]_vars

C15_Witness ==
    /\ thrown = "Connection can't be null"
    /\ pool.st = "ready" /\ held > 0 /\ pool.vended = held

\* C16: release-connection hands the connection back to the pool acquire took
\* it from: whenever the caller gives a connection back, that pool counts one
\* connection less in use and, while it is running, one more idle, so the
\* connection can serve a later or pending acquire.
C16_ReleaseReturnsToAcquiringPool ==
    [][held' < held =>
          (/\ ~crashed'
           /\ pool'.vended = pool.vended - 1
           /\ pool.st = "ready" => pool'.idle = pool.idle + 1)]_vars

\* C17: execute_request with a null connection handle or a null listener
\* throws an explicit error and does no partial work: no request context is
\* created (so no listener reference is retained), nothing is submitted to the
\* engine, and a call that created no context never receives a stream event.
C17_ExecuteRequestRejectsNull ==
    /\ [][\A r \in ReqIds, h \in {NULL, "http_jni_conn"}, l \in {NULL, "listener"} :
              ((h = NULL \/ l = NULL) /\ httpConnectionExecuteRequest(r, h, l))
              => (/\ thrown' \in {"HttpConnection.ExecuteRequest: Invalid connection",
                                  "HttpConnection.ExecuteRequest: Invalid handler"}
                  /\ req' = req)]_vars
    /\ [](\A r \in ReqIds : ~req[r].ctx => (req[r].stream = "none" /\ req[r].log = <<>>))

C17_Witness ==
    /\ thrown = "HttpConnection.ExecuteRequest: Invalid handler"
    /\ tr = "open"
    /\ \A r \in ReqIds : req[r] = NoReq

\* C18: the listener's answer to outgoing-body-fill reaches the engine
\* unchanged ("more follows" as in-progress, "body complete" as done), and
\* once the listener has answered "body complete" the callback is not invoked
\* again for that request.
C18_OutgoingBodyStopsAtDone ==
    /\ [](\A r \in ReqIds :
            /\ req[r].callerDone <=> req[r].out = "DONE"
            /\ (req[r].fills > 0 /\ ~req[r].callerDone) <=> req[r].out = "IN_PROGRESS")
    /\ [][\A r \in ReqIds : req[r].callerDone => req'[r].fills = req[r].fills]_vars

C18_Witness ==
    \E r \in ReqIds :
        /\ req[r].fills = 2 /\ req[r].callerDone /\ req[r].out = "DONE"
        /\ req[r].stream = "complete"

\* C19: every header the engine received appears, as a name/value pair, in
\* the header list the headers-received event hands to the listener: for a
\* request with the header ("X-Test", "1") echoed by the endpoint the list
\* contains ("X-Test", "1").
C19_HeadersReachListener ==
    \A r \in ReqIds :
        Count(req[r].log, "HEADERS") > 0 =>
            \A i \in 1..Len(req[r].headers) :
                \E j \in 1..Len(req[r].jHeaders) : req[r].jHeaders[j] = req[r].headers[i]

\* C20: the thread that delivers pool-shutdown-complete or an
\* acquisition-complete event to the caller does not hold the manager's lock
\* at that moment.
C20_NoCallbackUnderLock ==
    [][/\ poolShutdownEvents' > poolShutdownEvents => rw_lock # cb.thread
       /\ \A a \in AcqIds :
            Len(acq'[a].events) > Len(acq[a].events) => rw_lock # IoThread]_vars

\* C21: every pool operation returns: a caller thread that entered an
\* operation comes back to its caller, and whenever a thread holds the
\* manager's lock the lock is eventually free again, so no thread waits on it
\* forever.
C21_PoolOperationsReturn ==
    /\ \A t \in JavaThreads : (pc[t] # "idle") ~> (pc[t] = "idle")
    /\ \A th \in Threads : (rw_lock = th) ~> (rw_lock = "free")

\* C22: each listener reference the layer retains is released exactly once, at
\* the terminal event of its operation and not before: the request listener's
\* reference is gone once stream-complete was delivered, the connection
\* listener's reference is held while the handle lives and gone once it is
\* destroyed.
C22_ListenerReferencesReleased ==
    /\ \A r \in ReqIds :
          /\ req[r].stream = "complete" => ~req[r].jni_http_callback_handler
          /\ InFlight(r) => req[r].jni_http_callback_handler
    /\ hc.st = "live" => hc.java_http_conn
    /\ hc.st = "destroyed" => ~hc.java_http_conn

\* C23: every request context is destroyed when its stream-complete event
\* fires: once a request has completed, or was not accepted by the engine, its
\* context is no longer allocated.
C23_RequestContextDestroyed ==
    \A r \in ReqIds : req[r].stream \in {"complete", "rejected"} => ~req[r].ctx

\* C24: the pool-shutdown-complete event is delivered at most once per pool
\* however often shutdown is called on the handle, and the pool reference is
\* handed to the pooling primitive once only: no shutdown call makes the
\* release step of httpConnectionManagerRelease fault on a reference that an
\* earlier call already gave away.
C24_ShutdownCompleteOncePerPool ==
    /\ [](poolShutdownEvents <= 1)
    /\ [][(~crashed /\ crashed') =>
            ~(\E t \in JavaThreads : httpConnectionManagerRelease_locked(t))]_vars

\* C26: the manager state is freed only inside the shutdown-complete callback
\* and only after every buffer pair has been reclaimed, and once it is freed
\* the callback takes no further step on it: no field of the freed state (here
\* its lock) is read or written afterwards.
C26_ManagerFreedLastInCallback ==
    /\ [](mgr.st = "freed" => bufPairs = {})
    /\ [][(mgr.st # "freed" /\ mgr'.st = "freed") => cb.pc = "drain"]_vars
    /\ [][mgr.st = "freed" =>
            ~s_on_http_conn_manager_shutdown_complete_callback_cleanup]_vars

\* C25: a buffer pair is freed only after the pooling primitive has signalled
\* shutdown-complete: in every step that frees a pair, the primitive's teardown
\* is over and the pool has no connection left, idle, in use or being opened.
C25_BuffersFreedAfterShutdownComplete ==
    [][(\E b \in bufPairs : b \notin bufPairs') =>
        /\ pool.st = "destroyed"
        /\ pool.idle = 0 /\ pool.vended = 0 /\ pool.connecting = 0]_vars

C25_Witness ==
    /\ cb.pc = "cleanup" /\ bufPairs = {} /\ mgr.max_connections = MaxConns
    /\ pool.st = "destroyed" /\ calls.acquire > 0

\* C27: the pool reference and the buffer free list are protected by the
\* manager's lock: every step that writes either on the live manager, and every
\* step in which an acquire call reads the pool reference, is taken by a
\* thread that holds rw_lock.
C27_SharedStateUnderLock ==
    /\ [][(/\ mgr.st = "live"
           /\ \/ mgr'.native_conn_manager # mgr.native_conn_manager
              \/ mgr'.idle_java_native_buf_pairs # mgr.idle_java_native_buf_pairs)
          => (rw_lock \in Threads \/ rw_lock' \in Threads)]_vars
    /\ [][\A a \in AcqIds :
            (acq[a].st # "read" /\ acq'[a].st = "read") => rw_lock = acq'[a].thread]_vars

\* C28: after a successful create the buffer free list holds exactly
\* max_connections pairs until the shutdown drain runs, and no step other than
\* create and that drain changes the list: acquire, release and shutdown calls
\* leave it as it is.
C28_FreeListCountFixed ==
    /\ []((mgr.st = "live" /\ num_nodes = -1) =>
            Len(mgr.idle_java_native_buf_pairs) = mgr.max_connections)
    /\ [][mgr'.idle_java_native_buf_pairs # mgr.idle_java_native_buf_pairs =>
            (mgr.st = "none" \/ cb.pc = "drain")]_vars

C28_Witness ==
    /\ mgr.st = "live" /\ mgr.native_conn_manager = NULL
    /\ Len(mgr.idle_java_native_buf_pairs) = MaxConns
    /\ held = 1 /\ calls.acquire = 2

\* C29: every streaming event of a request (headers, headers-done, body chunk,
\* outgoing-body fill, stream-complete) is delivered before the
\* connection-shutdown event of its connection: once that event was delivered no
\* request receives a further event. Hence, after a destroy performed once the
\* shutdown event was seen, no callback runs any more: nothing is delivered and
\* nothing reads the released handle.
C29_StreamEventsBeforeShutdown ==
    /\ [][ShutdownDelivered =>
            \A r \in ReqIds : /\ req'[r].log = req[r].log
                              /\ req'[r].fills = req[r].fills]_vars
    /\ [][hc.st = "destroyed" =>
            (req' = req /\ connEvents' = connEvents /\ ~crashed')]_vars

C29_Witness ==
    /\ hc.st = "destroyed" /\ ShutdownDelivered
    /\ req[1].stream = "complete" /\ req[1].fills >= 1
    /\ Count(req[1].log, "BODY") = 1

\* C30: the system never runs with a partially initialised pool: while no
\* shutdown was requested, a manager that create has set up and returned a
\* handle for holds a reference to an underlying pool, also when the pooling
\* primitive could not be constructed.
C30_NoPartiallyInitialisedPool ==
    (mgr.st = "live" /\ calls.release = 0) => mgr.native_conn_manager # NULL

\* C31: for the pool manager TLS is used exactly when a TLS context is
\* supplied, whatever the port: every successful create hands the pooling
\* primitive TLS connection options if and only if its TLS context argument is
\* not null, on port 80 and 8080 as on 443.
C31_PoolTlsIffContext ==
    [][mgr.st = "none" =>
       \A tls_ctx \in {NULL, "tls_ctx"}, port \in {80, 443, 8080}, max_conns \in 1..MaxConns :
          httpConnectionManagerNew("bootstrap", "socket_options", tls_ctx, 16,
                                   1, port, max_conns, "ok")
          => (/\ pool'.st = "ready" /\ pool'.port = port
              /\ pool'.use_tls <=> tls_ctx # NULL)]_vars

C31_Witness ==
    /\ pool.st = "ready" /\ pool.port = 80 /\ pool.use_tls
    /\ pool.vended >= 1

\* C32: an acquire call never forwards to the pooling primitive a pool
\* reference that is null or already released: in every forward step the
\* reference the call read is the pool's, and the pool has not been released
\* by a shutdown call, however acquire and shutdown interleave.
C32_AcquireForwardsLivePool ==
    [][\A t \in JavaThreads :
         (pc[t] = "acq_forward" /\ pc'[t] # "acq_forward") =>
            \A a \in AcqIds :
               (acq[a].st = "read" /\ acq[a].thread = t) =>
                  (acq[a].ptr = POOL /\ pool.st = "ready")]_vars

\* C33: no acquisition-complete event is delivered for a pool after that
\* pool's shutdown-complete event, and the acquisition callback never runs on
\* manager state that the shutdown-complete callback has freed.
C33_NoAcquisitionAfterShutdownComplete ==
    [][(\E a \in AcqIds : Len(acq'[a].events) > Len(acq[a].events)) =>
         (poolShutdownEvents = 0 /\ mgr.st = "live")]_vars

\* C34: close never hands the transport's close a connection reference that
\* the setup callback has not set from a successful setup: in every step of
\* httpConnectionClose, however it interleaves with the asynchronous setup,
\* the handle's native_http_conn is the established connection.
C34_CloseUsesEstablishedConnection ==
    [][httpConnectionClose => hc.native_http_conn = "conn"]_vars

====
